---------------------------- MODULE Spec2Model ----------------------------
(***************************************************************************)
(* Cart-pendulum stabilisation pipeline of                                 *)
(* cart_pendulum_control_Lagrangian_dynamics.ipynb.  The file holds three  *)
(* notebooks, each with a kernel of its own: the Lagrangian notebook and   *)
(* the Hamiltonian notebook (rate function, linearisation cell, LQR cell,  *)
(* open-loop and closed-loop odeint cells) and a third notebook with the   *)
(* angle measured from the +y axis (rate function and open-loop cell).     *)
(*                                                                         *)
(* Numbers.  A value is a pair <<r, e>> standing for r + e*RHO, where RHO  *)
(* = 6.123e-17 is the rounding residue of the double np.pi/2: numpy gives  *)
(* sin(np.pi) = 2*RHO and cos(np.pi/2) = RHO, not 0.  Products drop        *)
(* RHO^2.  A rate is a fraction [n, d] of two such values; it is           *)
(* non-finite (inf or nan) when d is exactly zero.                         *)
(*                                                                         *)
(* States.  A state is <<x1, v1, a, v2>> with integer x1, v1, v2 and the   *)
(* angle x2 = a * np.pi/2 held as its quarter-turn index a.                *)
(*                                                                         *)
(* odeint.  scipy's odeint (LSODA) is a library: it is modelled by its     *)
(* contract.  It takes internal steps of a size it chooses itself, calls   *)
(* the rate function one or more times per internal step at states it      *)
(* chooses, and fills one output row per requested time.  A component of   *)
(* the integrator state leaves its initial value only after a rate         *)
(* evaluation returned a non-zero derivative for it; the model tracks, per *)
(* component, whether it has left the initial value (dev), not the value.  *)
(***************************************************************************)
EXTENDS Integers, Sequences, FiniteSets, TLC

\* ------------------------------------------------------------ bounds
\* Largest end time tn of a time grid, in ticks.
MaxT == 3
\* Largest output spacing dt, in ticks.
MaxDt == 2
\* Largest internal step the integrator may choose, in ticks.
MaxH == 2
\* Most rate evaluations the integrator makes inside one internal step.
MaxEvals == 2
\* Internal steps allowed between two outputs before odeint gives up
\* (odeint's mxstep, 500 in scipy).
MxStep == 2

\* ------------------------------------------------------------ numbers
DVal(n) == <<n, 0>>
DAdd(a, b) == <<a[1] + b[1], a[2] + b[2]>>
DNeg(a) == <<-a[1], -a[2]>>
DSub(a, b) == DAdd(a, DNeg(b))
DMul(a, b) == <<a[1] * b[1], a[1] * b[2] + a[2] * b[1]>>
DIsZero(a) == a[1] = 0 /\ a[2] = 0

\* np.sin and np.cos at the doubles 0, np.pi/2, np.pi (index 0, 1, 2).
NpSin(a) == CASE a = 0 -> <<0, 0>> [] a = 1 -> <<1, 0>> [] a = 2 -> <<0, 2>>
NpCos(a) == CASE a = 0 -> <<1, 0>> [] a = 1 -> <<0, 1>> [] a = 2 -> <<-1, 0>>

Frac(n, d) == [n |-> n, d |-> d]
NonFinite(q) == DIsZero(q.d)
IsZeroRate(q) == ~NonFinite(q) /\ DIsZero(q.n)
\* The residue-free part of a finite rate is zero.
IsZeroExact(q) == ~NonFinite(q) /\ q.n[1] = 0

\* ------------------------------------------------------------ dynamics
\* Explicit accelerations solved from the Euler-Lagrange equations:
\*   (m1+m2) x1'' + m2 l cos(x2) x2'' - m2 l sin(x2) x2'^2 - u = 0
\*   m2 l cos(x2) x1'' + m2 l^2 x2'' - m2 g l sin(x2)        = 0
y1dd_function_SignSlip(y1, y1d, y2, y2d, t, u, m1, m2, l, g) ==
    LET s == NpSin(y2)
        c == NpCos(y2)
    IN Frac(DAdd(DVal(u), DMul(DVal(m2),
              DMul(c, DSub(DVal(l * y2d * y2d), DMul(DVal(g), c))))),
            DAdd(DVal(m1), DMul(DVal(m2), DMul(s, s))))

y1dd_function(y1, y1d, y2, y2d, t, u, m1, m2, l, g) ==
    LET s == NpSin(y2)
        c == NpCos(y2)
    IN Frac(DAdd(DVal(u), DMul(DVal(m2),
              DMul(s, DSub(DVal(l * y2d * y2d), DMul(DVal(g), c))))),
            DAdd(DVal(m1), DMul(DVal(m2), DMul(s, s))))

y2dd_function(y1, y1d, y2, y2d, t, u, m1, m2, l, g) ==
    LET s == NpSin(y2)
        c == NpCos(y2)
    IN Frac(DSub(DSub(DMul(DVal(g * (m1 + m2)), s), DMul(DVal(u), c)),
                 DMul(DVal(m2 * l * y2d * y2d), DMul(s, c))),
            DMul(DVal(l), DAdd(DVal(m1), DMul(DVal(m2), DMul(s, s)))))

\* No control law, free moving.
control_no(x) == 0

\* K_np @ v for the 1x4 matrix K_np: a vector with one entry.
MatVec(K, v) == <<K[1] * v[1] + K[2] * v[2] + K[3] * v[3] + K[4] * v[4]>>
VecSub_NoShift(x, y) == [i \in 1..4 |-> x[i]]

VecSub(x, y) == [i \in 1..4 |-> x[i] - y[i]]

control_law_NoSetpoint(K, sp, x) == -(MatVec(K, x)[1])

\* control_law = lambda x: -(K_np @(x-xsp))[0], with the K_np and xsp it reads.
control_law(K, sp, x) == -(MatVec(K, VecSub(x, sp))[1])

ApplyLaw(uf, K, sp, x) ==
    IF uf = "control_law" THEN control_law(K, sp, x) ELSE control_no(x)

\* One call of get_PendulumCartRates(X, t, uf, m1, m2, l, g): the control
\* it computed, how many times it called uf, and the four rates it returns.
\* K and sp are the globals K_np and xsp that control_law reads.
get_PendulumCartRates_NoLawCall(X, t, uf, K, sp, p) ==
    LET u == 0
    IN [u |-> u,
        ucalls |-> 0,
        f |-> << Frac(DVal(X[2]), DVal(1)),
                 y1dd_function(X[1], X[2], X[3], X[4], t, u, p.m1, p.m2, p.l, p.g),
                 Frac(DVal(X[4]), DVal(1)),
                 y2dd_function(X[1], X[2], X[3], X[4], t, u, p.m1, p.m2, p.l, p.g) >>]

get_PendulumCartRates(X, t, uf, K, sp, p) ==
    LET X_ == X
        u == ApplyLaw(uf, K, sp, X_)
        x1 == X_[1]
        v1 == X_[2]
        x2 == X_[3]
        v2 == X_[4]
        x1d == Frac(DVal(v1), DVal(1))
        v1d == y1dd_function(x1, v1, x2, v2, t, u, p.m1, p.m2, p.l, p.g)
        x2d == Frac(DVal(v2), DVal(1))
        v2d == y2dd_function(x1, v1, x2, v2, t, u, p.m1, p.m2, p.l, p.g)
    IN [u |-> u, ucalls |-> 1, f |-> <<x1d, v1d, x2d, v2d>>]

\* ------------------------------------------------------------ Hamiltonian
\* Notebook "Cart Pendulum: Hamiltonian Dynamics".  The state is
\* <<x1, p1, x2, p2>>; the momenta are passed as values <<r, e>>.
FNeg(q) == Frac(DNeg(q.n), q.d)
\* q - u for an integer u.
FSubInt(q, u) == Frac(DSub(q.n, DMul(DVal(u), q.d)), q.d)
\* Two finite rates are the same number.
FEq(q, r) == DMul(q.n, r.d) = DMul(r.n, q.d)

\* m1 + m2*sin(x2)**2, the determinant of the mass matrix over m2*l**2.
MassDet(x2, m1, m2) ==
    DAdd(DVal(m1), DMul(DVal(m2), DMul(NpSin(x2), NpSin(x2))))

\* H = p1*v1 + p2*v2 - L with the velocities replaced by vels_sol:
\*   H = N / (2 m2 l^2 (m1 + m2 sin^2 x2)) + m2 g l cos x2,
\*   N = l^2 m2 p1^2 - 2 l m2 cos(x2) p1 p2 + (m1 + m2) p2^2.
\* ddx(H, p1(t)), the velocity v1 in terms of the momenta.
dH_dp1(x1, p1, x2, p2, t, u, m1, m2, l, g) ==
    Frac(DSub(DMul(DVal(l), p1), DMul(NpCos(x2), p2)),
         DMul(DVal(l), MassDet(x2, m1, m2)))

\* ddx(H, x1(t)): H does not contain x1.
dH_dx1(x1, p1, x2, p2, t, u, m1, m2, l, g) == Frac(DVal(0), DVal(1))

\* ddx(H, p2(t)), the velocity v2 in terms of the momenta.
dH_dp2(x1, p1, x2, p2, t, u, m1, m2, l, g) ==
    Frac(DSub(DMul(DVal(m1 + m2), p2), DMul(DVal(m2 * l), DMul(NpCos(x2), p1))),
         DMul(DVal(m2 * l * l), MassDet(x2, m1, m2)))

\* ddx(H, x2(t)) = (N' D - N D') / (2 m2 l^2 D^2) - m2 g l sin x2 with
\* D = m1 + m2 sin^2 x2, N' = 2 l m2 sin(x2) p1 p2, D' = 2 m2 sin x2 cos x2.
dH_dx2(x1, p1, x2, p2, t, u, m1, m2, l, g) ==
    LET s == NpSin(x2)
        c == NpCos(x2)
        D == MassDet(x2, m1, m2)
        N == DAdd(DSub(DMul(DVal(l * l * m2), DMul(p1, p1)),
                       DMul(DVal(2 * l * m2), DMul(c, DMul(p1, p2)))),
                  DMul(DVal(m1 + m2), DMul(p2, p2)))
        Nd == DMul(DVal(2 * l * m2), DMul(s, DMul(p1, p2)))
        Dd == DMul(DVal(2 * m2), DMul(s, c))
        den == DMul(DVal(2 * m2 * l * l), DMul(D, D))
    IN Frac(DSub(DSub(DMul(Nd, D), DMul(N, Dd)),
                 DMul(DMul(DVal(m2 * g * l), s), den)),
            den)

x1d_exp_Documented(x1, p1, x2, p2, t, u, m1, m2, l, g) ==
    FNeg(dH_dp1(x1, p1, x2, p2, t, u, m1, m2, l, g))

\* Hamilton's equations as the code cell writes them:
\*   x1d_exp =  ddx(H, p1(t)),  p1d_exp = -ddx(H, x1(t)) - u,
\*   x2d_exp =  ddx(H, p2(t)),  p2d_exp = -ddx(H, x2(t)).
x1d_exp(x1, p1, x2, p2, t, u, m1, m2, l, g) ==
    dH_dp1(x1, p1, x2, p2, t, u, m1, m2, l, g)

p1d_exp(x1, p1, x2, p2, t, u, m1, m2, l, g) ==
    FSubInt(FNeg(dH_dx1(x1, p1, x2, p2, t, u, m1, m2, l, g)), u)

x2d_exp(x1, p1, x2, p2, t, u, m1, m2, l, g) ==
    dH_dp2(x1, p1, x2, p2, t, u, m1, m2, l, g)

p2d_exp_PullsP2(x1, p1, x2, p2, t, u, m1, m2, l, g) ==
    FSubInt(FNeg(dH_dx2(x1, p1, x2, p2, t, u, m1, m2, l, g)), u)

p2d_exp(x1, p1, x2, p2, t, u, m1, m2, l, g) ==
    FNeg(dH_dx2(x1, p1, x2, p2, t, u, m1, m2, l, g))

\* DE_funcs = [to_eq(eq) for eq in [x1d_exp, p1d_exp, x2d_exp, p2d_exp]],
\* applied to one argument list.
DE_funcs(x1, p1, x2, p2, t, u, m1, m2, l, g) ==
    << x1d_exp(x1, p1, x2, p2, t, u, m1, m2, l, g),
       p1d_exp(x1, p1, x2, p2, t, u, m1, m2, l, g),
       x2d_exp(x1, p1, x2, p2, t, u, m1, m2, l, g),
       p2d_exp(x1, p1, x2, p2, t, u, m1, m2, l, g) >>

get_PendulumCartRates_Hamiltonian_Stale(X, t, uf, K, sp, p) ==
    LET u == ApplyLaw(uf, K, sp, <<0, 0, 0, 0>>)
    IN [u |-> u, ucalls |-> 1,
        f |-> DE_funcs(X[1], DVal(X[2]), X[3], DVal(X[4]), t, u,
                       p.m1, p.m2, p.l, p.g)]

\* One call of get_PendulumCartRates_Hamiltonian(X, t, uf, m1, m2, l, g).
get_PendulumCartRates_Hamiltonian(X, t, uf, K, sp, p) ==
    LET X_ == X
        u == ApplyLaw(uf, K, sp, X_)
        x1 == X_[1]
        p1 == DVal(X_[2])
        x2 == X_[3]
        p2 == DVal(X_[4])
    IN [u |-> u, ucalls |-> 1,
        f |-> DE_funcs(x1, p1, x2, p2, t, u, p.m1, p.m2, p.l, p.g)]

\* ------------------------------------------------------------ theta notebook
\* Notebook "Cart Pendulum dynamics: Lagrangian mechanics": the angle theta
\* is measured from the +y axis (pendulum_y = l*cos(theta)), so gravity
\* enters with the other sign.
\* (The cell keeps, commented out, the equation ddt(ddt(x)) - u of a cart
\* the pendulum does not act on.)
y1dd_function_theta_Decoupled(y1, y1d, y2, y2d, t, u, m_c, m_p, l, g) ==
    Frac(DVal(u), DVal(1))

y1dd_function_theta(y1, y1d, y2, y2d, t, u, m_c, m_p, l, g) ==
    LET s == NpSin(y2)
        c == NpCos(y2)
    IN Frac(DAdd(DVal(u), DMul(DVal(m_p),
              DMul(s, DAdd(DVal(l * y2d * y2d), DMul(DVal(g), c))))),
            DAdd(DVal(m_c), DMul(DVal(m_p), DMul(s, s))))

y2dd_function_theta(y1, y1d, y2, y2d, t, u, m_c, m_p, l, g) ==
    LET s == NpSin(y2)
        c == NpCos(y2)
    IN Frac(DSub(DSub(DMul(DVal(-(g * (m_c + m_p))), s), DMul(DVal(u), c)),
                 DMul(DVal(m_p * l * y2d * y2d), DMul(s, c))),
            DMul(DVal(l), DAdd(DVal(m_c), DMul(DVal(m_p), DMul(s, s)))))

get_PendulumCartRates_theta(X, t, uf, K, sp, p) ==
    LET X_ == X
        u == ApplyLaw(uf, K, sp, X_)
        x == X_[1]
        v1 == X_[2]
        theta == X_[3]
        v2 == X_[4]
        xd == Frac(DVal(v1), DVal(1))
        v1d == y1dd_function_theta(x, v1, theta, v2, t, u, p.m1, p.m2, p.l, p.g)
        d_theta == Frac(DVal(v2), DVal(1))
        v2d == y2dd_function_theta(x, v1, theta, v2, t, u, p.m1, p.m2, p.l, p.g)
    IN [u |-> u, ucalls |-> 1, f |-> <<xd, v1d, d_theta, v2d>>]

\* ------------------------------------------------------------ linearisation
\* Entries of A_sp and B_sp: exact fractions of integers (sympy arithmetic,
\* where sin(pi) = 0 and cos(pi) = -1).  A zero denominator is sympy's zoo
\* or nan.
QFinite(q) == q.d # 0
QZero == Frac(0, 1)
QOne == Frac(1, 1)

\* Jacobian of <<x1d, x1dd, x2d, x2dd>> in <<x1, x1d, x2, x2d>> with
\* x2 = pi, x1d = 0, x2d = 0 substituted, then the parameters.
A_sp(p) ==
    << <<QZero, QOne, QZero, QZero>>,
       <<QZero, QZero, Frac(-(p.m2 * p.g), p.m1), QZero>>,
       <<QZero, QZero, QZero, QOne>>,
       <<QZero, QZero, Frac(-(p.g * (p.m1 + p.m2)), p.l * p.m1), QZero>> >>

B_sp(p) == <<QZero, Frac(1, p.m1), QZero, Frac(1, p.l * p.m1)>>

MatFinite(A) == \A i \in 1..4 : \A j \in 1..4 : QFinite(A[i][j])
VecFinite(B) == \A i \in 1..4 : QFinite(B[i])

\* The same Jacobian in the Hamiltonian notebook, of
\* <<x1d_exp, p1d_exp, x2d_exp, p2d_exp>> in <<x1, p1, x2, p2>> with
\* x2 = pi, p1 = 0, p2 = 0 substituted, then the parameters.
A_sp_Hamiltonian(p) ==
    << <<QZero, Frac(1, p.m1), QZero, Frac(1, p.l * p.m1)>>,
       <<QZero, QZero, QZero, QZero>>,
       <<QZero, Frac(1, p.l * p.m1), QZero,
         Frac(p.m1 + p.m2, p.m2 * p.l * p.l * p.m1)>>,
       <<QZero, QZero, Frac(-(p.m2 * p.g * p.l), 1), QZero>> >>

B_sp_Hamiltonian(p) == <<QZero, Frac(-1, 1), QZero, QZero>>

\* Exact arithmetic on finite entries.
QAdd(q, r) == Frac(q.n * r.d + r.n * q.d, q.d * r.d)
QMul(q, r) == Frac(q.n * r.n, q.d * r.d)
QNeg(q) == Frac(-q.n, q.d)
QMatVec(A, v) ==
    [i \in 1..4 |->
        QAdd(QAdd(QMul(A[i][1], v[1]), QMul(A[i][2], v[2])),
             QAdd(QMul(A[i][3], v[3]), QMul(A[i][4], v[4])))]

\* Determinant by expansion along the first row.
RECURSIVE QDet(_)
QDet(M) ==
    IF Len(M) = 1 THEN M[1][1]
    ELSE LET n == Len(M)
             Minor(j) == [i \in 1..(n - 1) |->
                            [k \in 1..(n - 1) |->
                                M[i + 1][IF k < j THEN k ELSE k + 1]]]
             Term(j) == IF j % 2 = 1 THEN QMul(M[1][j], QDet(Minor(j)))
                        ELSE QNeg(QMul(M[1][j], QDet(Minor(j))))
             Sum[j \in 0..n] == IF j = 0 THEN QZero ELSE QAdd(Sum[j - 1], Term(j))
         IN Sum[n]

\* The rows B, AB, A^2B, A^3B of the transposed controllability matrix.
Ctrb(A, B) ==
    <<B, QMatVec(A, B), QMatVec(A, QMatVec(A, B)),
      QMatVec(A, QMatVec(A, QMatVec(A, B)))>>

\* For the pairs these notebooks produce the uncontrollable mode, when
\* there is one, is the eigenvalue 0 (it appears exactly when the gravity
\* entry of A vanishes), so the pair is stabilizable exactly when it is
\* controllable: det [B AB A^2B A^3B] # 0.
Stabilizable(A, B) ==
    /\ MatFinite(A) /\ VecFinite(B)
    /\ QDet(Ctrb(A, B)).n # 0

\* ------------------------------------------------------------ inputs
\* param_vals: the notebook's values, a massless-rod-length-zero variant
\* (singular mass matrix) and a gravity-free variant.
PARAMS ==
    { [m1 |-> 1, m2 |-> 1, l |-> 1, g |-> -10],
      [m1 |-> 1, m2 |-> 1, l |-> 0, g |-> -10],
      [m1 |-> 1, m2 |-> 1, l |-> 1, g |-> 0] }

DefaultParams == [m1 |-> 1, m2 |-> 1, l |-> 1, g |-> -10]

\* The three notebooks of the file; each runs in a kernel of its own.
NOTEBOOKS == {"Lagrangian", "Hamiltonian", "theta"}

Down == <<0, 0, 0, 0>>
Side == <<0, 0, 1, 0>>
Up == <<0, 0, 2, 0>>

\* Initial conditions x0 of a run.
X0S == {Down, Side, Up}
\* Set points xsp.
XSPS == {Up, <<1, 0, 2, 0>>}
\* Gain rows lqr may return (the angle gain is per quarter turn).
GAINS == { <<-1, -2, 5, 3>>, <<1, 0, 2, 1>> }
\* States at which the integrator may call the rate function.
POOL ==
    X0S \cup { <<1, 0, 2, 0>>, <<0, 1, 2, 1>>, <<1, 1, 1, 1>>, <<0, 1, 0, 0>>,
               <<0, 0, 1, 1>> }

GRIDS ==
    { gr \in [t0 : {0, 1}, tn : 1..MaxT, dt : 1..MaxDt] : gr.t0 < gr.tn }

\* ts = np.arange(t0, tn, dt): start, start + step, ... below stop.
RECURSIVE Arange(_, _, _)
Arange_Closed(start, stop, step) ==
    IF start <= stop THEN <<start>> \o Arange(start + step, stop, step)
    ELSE <<>>

Arange(start, stop, step) ==
    IF start < stop THEN <<start>> \o Arange(start + step, stop, step)
    ELSE <<>>

\* ------------------------------------------------------------ state
VARIABLES
    nb,          \* the notebook this kernel runs
    reruns,      \* times the LQR cell was executed again
    own,         \* what a run was set up with: gain, set point, odeint's args
    param_vals,  \* the notebook's parameter dictionary
    lin,         \* the linearisation cell has run (A_sp, B_sp exist)
    tuned,       \* the LQR cell has run
    A_np,        \* <<>> until assigned
    B_np,        \* <<>> until assigned
    K_np,        \* <<>> until assigned
    raised,      \* exception that ended the last cell, or "none"
    phase,       \* of the odeint run: Idle, Integrating, Completed, Diverged
    law,         \* the uf passed to odeint
    x0,          \* initial condition passed to odeint
    xsp,         \* set point read by control_law
    grid,        \* t0, tn, dt
    ts,          \* requested times
    out,         \* rows of the output array filled so far
    result,      \* the array odeint returned, <<>> before it returns
    tcur,        \* integrator's internal time
    lastH,       \* size of the last internal step, 0 before the first
    dev,         \* components that have left their initial value
    pending,     \* components with a non-zero rate seen in the current step
    fin,         \* the integrator state is finite
    pfin,        \* every rate seen in the current step was finite
    nsteps,      \* internal steps taken
    sinceOut,    \* internal steps taken since the last output row
    evs,         \* rate evaluations in the current internal step
    nfev,        \* rate evaluations in the run
    ucalls,      \* calls of the control law in the run
    ev           \* the last rate evaluation: its state, control and rates

cellVars == <<nb, reruns, param_vals, lin, tuned, A_np, B_np, K_np, raised>>
runIn == <<law, x0, xsp, grid, ts, own>>
runVars == <<phase, out, result, tcur, lastH, dev, pending, fin, pfin,
             nsteps, sinceOut, evs, nfev, ucalls, ev>>
vars == <<cellVars, runIn, runVars>>

NoEval == [valid |-> FALSE, X |-> Down, t |-> 0, u |-> 0, p |-> <<>>,
           f |-> <<Frac(DVal(0), DVal(1)), Frac(DVal(0), DVal(1)),
                   Frac(DVal(0), DVal(1)), Frac(DVal(0), DVal(1))>>]

NoRun == [K |-> <<>>, xsp |-> <<>>, p |-> <<>>]

InitRest ==
    /\ reruns = 0 /\ own = NoRun
    /\ lin = FALSE /\ tuned = FALSE
    /\ A_np = <<>> /\ B_np = <<>> /\ K_np = <<>>
    /\ raised = "none"
    /\ phase = "Idle"
    /\ law = "control_no" /\ x0 = Down /\ xsp = Up
    /\ grid = [t0 |-> 0, tn |-> 1, dt |-> 1] /\ ts = <<>>
    /\ out = <<>> /\ result = <<>>
    /\ tcur = 0 /\ lastH = 0
    /\ dev = {} /\ pending = {} /\ fin = TRUE /\ pfin = TRUE
    /\ nsteps = 0 /\ sinceOut = 0 /\ evs = 0 /\ nfev = 0 /\ ucalls = 0
    /\ ev = NoEval

Init ==
    /\ nb \in NOTEBOOKS
    /\ param_vals \in PARAMS
    /\ InitRest

\* ------------------------------------------------------------ cells
\* Linearisation cell: builds the symbolic A_sp and B_sp.
LinearizeCell ==
    /\ nb # "theta"
    /\ phase = "Idle" /\ ~lin /\ raised = "none"
    /\ lin' = TRUE
    /\ UNCHANGED <<nb, reruns, param_vals, tuned, A_np, B_np, K_np, raised,
                   runIn, runVars>>

\* ct_matlab.lqr(A_np, B_np, Q, R)[0] is a library call.  It cannot convert
\* a zoo or nan entry and raises; for a stabilizable pair it returns a gain
\* row; for any other pair the notebook relies on whatever the library does,
\* which is either an exception of the library or a returned matrix.
LqrOutcomes(A, B) ==
    IF ~(MatFinite(A) /\ VecFinite(B))
    THEN {[raised |-> "TypeError", K |-> <<>>]}
    ELSE IF Stabilizable(A, B)
    THEN {[raised |-> "none", K |-> K] : K \in GAINS}
    ELSE {[raised |-> "LinAlgError", K |-> <<>>]}
           \cup {[raised |-> "none", K |-> K] : K \in GAINS}

\* A_sp.subs(param_subs), B_sp.subs(param_subs) of the running notebook.
Subs_A_Drift(p) ==
    IF nb = "Hamiltonian" THEN A_sp_Hamiltonian(p)
    ELSE A_sp([p EXCEPT !.m1 = p.m1 + reruns])

Subs_A(p) == IF nb = "Hamiltonian" THEN A_sp_Hamiltonian(p) ELSE A_sp(p)
Subs_B(p) == IF nb = "Hamiltonian" THEN B_sp_Hamiltonian(p) ELSE B_sp(p)

\* LQR cell: substitutes the parameters, then calls lqr.  K_np is assigned
\* only when lqr returns.
LqrCell ==
    /\ phase = "Idle" /\ lin /\ ~tuned /\ raised = "none"
    /\ tuned' = TRUE
    /\ A_np' = Subs_A(param_vals)
    /\ B_np' = Subs_B(param_vals)
    /\ \E o \in LqrOutcomes(A_np', B_np') :
          /\ raised' = o.raised
          /\ K_np' = o.K
    /\ UNCHANGED <<nb, reruns, param_vals, lin, runIn, runVars>>

\* A row of the output array.
Sample(t, d, finite) ==
    [t |-> t, dev |-> d, st |-> IF finite THEN "finite" ELSE "nonfinite"]
Unfilled(t) == [t |-> t, dev |-> {}, st |-> "unfilled"]

\* odeint begins: row 0 is y0, the integrator stands at ts[0].
StartRun(uf, gr, y0, sp) ==
    /\ law' = uf /\ grid' = gr /\ x0' = y0 /\ xsp' = sp
    /\ own' = [K |-> K_np, xsp |-> sp, p |-> param_vals]
    /\ ts' = Arange(gr.t0, gr.tn, gr.dt)
    /\ phase' = "Integrating"
    /\ out' = <<Sample(ts'[1], {}, TRUE)>>
    /\ result' = <<>>
    /\ tcur' = gr.t0 /\ lastH' = 0
    /\ dev' = {} /\ pending' = {} /\ fin' = TRUE /\ pfin' = TRUE
    /\ nsteps' = 0 /\ sinceOut' = 0 /\ evs' = 0 /\ nfev' = 0 /\ ucalls' = 0
    /\ ev' = NoEval

\* Open-loop simulation cell, the first odeint call of the notebook.
OpenLoopCell ==
    /\ phase = "Idle" /\ ~lin /\ raised = "none"
    /\ \E gr \in GRIDS : \E y0 \in X0S : StartRun("control_no", gr, y0, xsp)
    /\ UNCHANGED cellVars

\* Closed-loop simulation cell: reached only when the LQR cell returned.
ClosedLoopCell ==
    /\ phase = "Idle" /\ tuned /\ raised = "none"
    /\ \E gr \in GRIDS : \E y0 \in X0S : \E sp \in XSPS :
          StartRun("control_law", gr, y0, sp)
    /\ UNCHANGED cellVars

\* ------------------------------------------------------------ odeint
NextOut == Len(out) + 1
MoreRows == Len(out) < Len(ts)

\* States the integrator can pass to the rate function: a component that
\* has not left its initial value is passed as that value.
Probes == {X \in POOL : \A i \in (1..4) \ (dev \cup pending) : X[i] = x0[i]}

\* The func the notebook hands to odeint.
Rates(X, t, uf, K, sp, p) ==
    CASE nb = "Lagrangian" -> get_PendulumCartRates(X, t, uf, K, sp, p)
      [] nb = "Hamiltonian" -> get_PendulumCartRates_Hamiltonian(X, t, uf, K, sp, p)
      [] nb = "theta" -> get_PendulumCartRates_theta(X, t, uf, K, sp, p)

\* odeint hands the args tuple it was given to every call of func.
CallArgs_Drift(a, n) == [a EXCEPT !.m2 = a.m2 + n]

CallArgs(a, n) == a

\* odeint calls func(y, t, *args): one whole call of the rate function.
Eval ==
    /\ phase = "Integrating" /\ MoreRows
    /\ tcur < ts[NextOut]
    /\ sinceOut < MxStep /\ evs < MaxEvals
    /\ \E X \in Probes :
          LET a == CallArgs(own.p, nfev)
              r == Rates(X, tcur, law, K_np, xsp, a)
          IN /\ ev' = [valid |-> TRUE, X |-> X, t |-> tcur, u |-> r.u, p |-> a,
                       f |-> r.f]
             /\ ucalls' = ucalls + r.ucalls
             /\ pending' = pending \cup {i \in 1..4 : ~IsZeroRate(r.f[i])}
             /\ pfin' = (pfin /\ \A i \in 1..4 : ~NonFinite(r.f[i]))
    /\ nfev' = nfev + 1
    /\ evs' = evs + 1
    /\ UNCHANGED <<cellVars, runIn, phase, out, result, tcur, lastH, dev, fin,
                   nsteps, sinceOut>>

\* The integrator completes an internal step of a size it chose.
Advance ==
    /\ phase = "Integrating" /\ MoreRows
    /\ evs >= 1
    /\ \E hh \in 1..MaxH : tcur' = tcur + hh /\ lastH' = hh
    /\ dev' = dev \cup pending
    /\ fin' = (fin /\ pfin)
    /\ pending' = {} /\ pfin' = TRUE /\ evs' = 0
    /\ nsteps' = nsteps + 1
    /\ sinceOut' = sinceOut + 1
    /\ UNCHANGED <<cellVars, runIn, phase, out, result, nfev, ucalls, ev>>

\* Time of output row k: the requested time, whatever the internal time is.
OutputTime_Internal(k, t) == t

OutputTime(k, t) == ts[k]

\* A filled row goes into the next free row of the output array.
AppendRow_Overwrite(rows, r) == [rows EXCEPT ![Len(rows)] = r]

AppendRow(rows, r) == Append(rows, r)

\* The integrator has passed the next requested time: the row is filled by
\* interpolation.
Emit ==
    /\ phase = "Integrating" /\ MoreRows
    /\ evs = 0
    /\ tcur >= ts[NextOut]
    /\ out' = AppendRow(out, Sample(OutputTime(NextOut, tcur), dev, fin))
    /\ sinceOut' = 0
    /\ UNCHANGED <<cellVars, runIn, phase, result, tcur, lastH, dev, pending,
                   fin, pfin, nsteps, evs, nfev, ucalls, ev>>

\* The array odeint returns has one row per requested time, filled or not.
ReturnedArray_Partial(rows, times) == rows

ReturnedArray(rows, times) ==
    rows \o [k \in 1..(Len(times) - Len(rows)) |-> Unfilled(times[Len(rows) + k])]

ExitPhase_BackToIdle(ok) == IF ok THEN "Completed" ELSE "Idle"

ExitPhase(ok) == IF ok THEN "Completed" ELSE "Diverged"

\* Every requested row is filled: odeint returns.
Finish ==
    /\ phase = "Integrating" /\ ~MoreRows
    /\ phase' = ExitPhase(TRUE)
    /\ result' = ReturnedArray(out, ts)
    /\ UNCHANGED <<cellVars, runIn, out, tcur, lastH, dev, pending, fin, pfin,
                   nsteps, sinceOut, evs, nfev, ucalls, ev>>

\* LSODA gives up (too much work before the next requested time, or a
\* non-finite state): odeint warns and returns the array all the same.
Fail ==
    /\ phase = "Integrating" /\ MoreRows
    /\ evs = 0
    /\ \/ ~fin
       \/ sinceOut >= MxStep /\ tcur < ts[NextOut]
    /\ phase' = ExitPhase(FALSE)
    /\ result' = ReturnedArray(out, ts)
    /\ UNCHANGED <<cellVars, runIn, out, tcur, lastH, dev, pending, fin, pfin,
                   nsteps, sinceOut, evs, nfev, ucalls, ev>>

Next ==
    \/ LinearizeCell
    \/ LqrCell
    \/ OpenLoopCell
    \/ ClosedLoopCell
    \/ Eval
    \/ Advance
    \/ Emit
    \/ Finish
    \/ Fail

Spec == Init /\ [][Next]_vars

\* ------------------------------------------------------------ cells run again
\* Most re-executions of the LQR cell.
MaxReruns == 1

\* The linearisation cell executed again: it rebuilds A_sp and B_sp from
\* DEexplicit and subs_stationary, which no cell reassigns, and binds the
\* same names to equal matrices.
RerunLinearizeCell ==
    /\ phase = "Idle" /\ lin
    /\ lin' = TRUE
    /\ UNCHANGED <<nb, reruns, param_vals, tuned, A_np, B_np, K_np, raised,
                   runIn, runVars>>

\* ct_matlab.lqr is a function of its arguments: called with the arguments
\* of the previous call it ends as that call ended.
LqrAgain(A, B) ==
    IF A = A_np /\ B = B_np THEN {[raised |-> raised, K |-> K_np]}
    ELSE LqrOutcomes(A, B)

\* The LQR cell executed again.
RerunLqrCell ==
    /\ phase = "Idle" /\ tuned /\ reruns < MaxReruns
    /\ reruns' = reruns + 1
    /\ A_np' = Subs_A(param_vals)
    /\ B_np' = Subs_B(param_vals)
    /\ \E o \in LqrAgain(A_np', B_np') :
          /\ raised' = o.raised
          /\ K_np' = o.K
    /\ UNCHANGED <<nb, param_vals, lin, tuned, runIn, runVars>>

InitLagrangian ==
    /\ nb = "Lagrangian"
    /\ param_vals \in PARAMS
    /\ InitRest

NextRerun ==
    \/ Next
    \/ RerunLinearizeCell
    \/ RerunLqrCell

\* The Lagrangian notebook with its cells executed more than once.
SpecRerun == InitLagrangian /\ [][NextRerun]_vars

\* ------------------------------------------------------------ two runs
\* A second run is set up in the same namespace while the first integrates
\* (the runs on two threads): the set-up statement xsp = np.array(...)
\* rebinds the global that the first run's control_law reads.
SetUpOtherRun ==
    /\ phase = "Integrating" /\ law = "control_law"
    /\ \E sp \in XSPS : sp # xsp /\ xsp' = sp
    /\ UNCHANGED <<cellVars, law, x0, grid, ts, own, runVars>>

NextInterleaved ==
    \/ Next
    \/ SetUpOtherRun

SpecInterleaved == InitLagrangian /\ [][NextInterleaved]_vars

\* ------------------------------------------------------------ properties
Done == {"Completed", "Diverged"}
CeilDiv(a, b) == (a + b - 1) \div b

\* C1 (as claimed): the control law is called exactly once per integration
\* step and never from a re-evaluation inside a step: at the end of a run
\* the number of control-law calls equals the number of integration steps.
C1_OncePerStep ==
    /\ evs <= 1
    /\ phase = "Completed" => ucalls = nsteps

\* C1 (amended): the control law is called exactly once in every rate
\* evaluation, with the state of that evaluation: the number of control-law
\* calls equals the number of rate evaluations, and the control used in an
\* evaluation is the law applied to the state passed to it.
C1_OncePerEvaluation ==
    /\ ucalls = nfev
    /\ ev.valid => ev.u = ApplyLaw(law, K_np, xsp, ev.X)

\* A finished closed-loop run with more control-law calls than steps.
C1_Witness ==
    /\ phase = "Completed" /\ law = "control_law"
    /\ nsteps >= 1 /\ ucalls > nsteps /\ ev.u # 0

\* C2: the array a run returns has exactly ceil((tn - t0)/dt) rows, however
\* the run ended and however many internal steps it took.
C2_SampleCount ==
    phase \in Done => Len(result) = CeilDiv(grid.tn - grid.t0, grid.dt)

\* A completed run on a grid whose span is no multiple of dt, with a number
\* of internal steps other than one per row.
C2_Witness ==
    /\ phase = "Completed" /\ Len(result) >= 2
    /\ (grid.tn - grid.t0) % grid.dt # 0
    /\ nsteps # Len(result) - 1

\* C3: a run goes Idle -> Integrating -> Completed or Diverged and no
\* other way, and while it is Integrating nothing but the integrator acts:
\* the cells' variables and the run's inputs stay as they are.
C3_RunStateMachine ==
    [][ /\ phase' # phase =>
              <<phase, phase'>> \in { <<"Idle", "Integrating">>,
                                      <<"Integrating", "Completed">>,
                                      <<"Integrating", "Diverged">> }
        /\ phase = "Integrating" => cellVars' = cellVars /\ runIn' = runIn
      ]_vars

\* A run that ended Diverged after taking steps.
C3_Witness == phase = "Diverged" /\ nsteps >= 1 /\ Len(out) >= 2

\* C4 (as claimed): a run whose state became non-finite ends in
\* DivergedSimulationError and returns only the finite samples.
C4_DivergedError ==
    (phase \in Done /\ ~fin) =>
        /\ raised = "DivergedSimulationError"
        /\ \A k \in 1..Len(result) : result[k].st = "finite"

\* C5 (as claimed): every integration step has length dt, so a completed
\* run took one step per sample after the first.
C5_FixedStep ==
    /\ lastH \in {0, grid.dt}
    /\ phase = "Completed" => nsteps = Len(ts) - 1

\* C5 (amended): the output grid is fixed: row k is at t0 + k*dt, below tn,
\* whatever internal steps the integrator took.
C5_FixedOutputGrid ==
    \A k \in 1..Len(out) :
        /\ out[k].t = grid.t0 + (k - 1) * grid.dt
        /\ out[k].t < grid.tn

\* A completed run whose last internal step was not dt long.
C5_Witness ==
    /\ phase = "Completed" /\ Len(out) >= 2
    /\ lastH # grid.dt /\ tcur > out[Len(out)].t

UnforcedDefault ==
    /\ phase # "Idle" /\ law = "control_no" /\ param_vals = DefaultParams

\* C6 (as claimed): unforced and released at rest from the upright or the
\* downward equilibrium, every rate is zero and every sample equals the
\* initial state.
C6_EquilibriumExact ==
    (UnforcedDefault /\ x0 \in {Up, Down}) =>
        /\ ev.valid => \A i \in 1..4 : IsZeroRate(ev.f[i])
        /\ \A k \in 1..Len(out) : out[k].dev = {} /\ out[k].st = "finite"

\* C6 (amended): from the downward equilibrium every rate is exactly zero
\* and every sample equals the initial state; at the upright state the
\* rates are zero up to the rounding residue of sin(np.pi) only.
C6_EquilibriumUpToResidue ==
    /\ (UnforcedDefault /\ x0 = Down) =>
          /\ ev.valid => ev.X = Down /\ \A i \in 1..4 : IsZeroRate(ev.f[i])
          /\ dev = {}
          /\ \A k \in 1..Len(out) : out[k].dev = {} /\ out[k].st = "finite"
    /\ (UnforcedDefault /\ x0 = Up /\ ev.valid /\ ev.X = Up) =>
          \A i \in 1..4 : IsZeroExact(ev.f[i])

\* A completed three-sample run from the downward equilibrium.
C6_Witness ==
    /\ UnforcedDefault /\ x0 = Down /\ phase = "Completed"
    /\ Len(result) = 3 /\ nfev >= 2

\* C7: in a closed-loop run the control of every rate evaluation is
\* u = -(K1 d1 + K2 d2 + K3 d3 + K4 d4) with d = state - set point.
C7_LinearFeedback ==
    (ev.valid /\ law = "control_law") =>
        ev.u = 0 - ( K_np[1] * (ev.X[1] - xsp[1]) + K_np[2] * (ev.X[2] - xsp[2])
                   + K_np[3] * (ev.X[3] - xsp[3]) + K_np[4] * (ev.X[4] - xsp[4]) )

\* A closed-loop evaluation away from a set point that is not the origin.
C7_Witness ==
    /\ ev.valid /\ law = "control_law"
    /\ ev.X # xsp /\ ev.u # 0 /\ xsp[1] # 0 /\ ev.X[4] # 0

\* C9 (as claimed): on an unstabilizable pair gain synthesis ends in
\* UnstabilizableSystemError, assigns no gain, and no run follows.
C9_UnstabilizableFatal ==
    (tuned /\ MatFinite(A_np) /\ VecFinite(B_np) /\ ~Stabilizable(A_np, B_np)) =>
        /\ raised = "UnstabilizableSystemError"
        /\ K_np = <<>>
        /\ phase = "Idle"

\* C10 (as claimed): the linear model never holds a NaN or infinite entry.
C10_NoNonFiniteModel ==
    A_np # <<>> => MatFinite(A_np) /\ VecFinite(B_np)

C12_RunsIndependent ==
    (ev.valid /\ law = "control_law") =>
        ev.u = control_law(own.K, own.xsp, ev.X)

\* C13: the parameters never change during a run: every rate evaluation
\* receives the four values the run was started with, which are the
\* notebook's param_vals, and an evaluation changes neither the parameters
\* nor the integrator's state, time or output rows.
C13_ParametersFixed ==
    [][ /\ phase' = "Integrating" =>
              /\ own'.p = param_vals'
              /\ ev'.valid => ev'.p = own'.p
        /\ phase = "Integrating" => param_vals' = param_vals /\ own'.p = own.p
        /\ (phase = "Integrating" /\ nfev' # nfev) =>
              /\ dev' = dev /\ fin' = fin /\ tcur' = tcur /\ out' = out
              /\ x0' = x0 /\ K_np' = K_np /\ xsp' = xsp
      ]_vars

\* A completed run with several rate evaluations and a moving state.
C13_Witness ==
    /\ phase = "Completed" /\ nfev >= 3 /\ dev # {} /\ ev.p = param_vals

HamiltonianEval == nb = "Hamiltonian" /\ ev.valid

\* The partial derivative of H, by name, at the state, control and
\* parameters of the last rate evaluation.
HAt(d) ==
    LET X == ev.X
        q == ev.p
        p1 == DVal(X[2])
        p2 == DVal(X[4])
    IN CASE d = "p1" -> dH_dp1(X[1], p1, X[3], p2, ev.t, ev.u, q.m1, q.m2, q.l, q.g)
         [] d = "x1" -> dH_dx1(X[1], p1, X[3], p2, ev.t, ev.u, q.m1, q.m2, q.l, q.g)
         [] d = "p2" -> dH_dp2(X[1], p1, X[3], p2, ev.t, ev.u, q.m1, q.m2, q.l, q.g)
         [] d = "x2" -> dH_dx2(X[1], p1, X[3], p2, ev.t, ev.u, q.m1, q.m2, q.l, q.g)

MomentaOf(X, q) ==
    LET c == NpCos(X[3])
    IN << DAdd(DVal((q.m1 + q.m2) * X[2]), DMul(DVal(q.m2 * q.l * X[4]), c)),
          DAdd(DMul(DVal(q.m2 * q.l * X[2]), c), DVal(q.m2 * q.l * q.l * X[4])) >>

\* The time derivative of these momenta along accelerations a1 = f[2] and
\* a2 = f[4]:
\*   p1' = (m1 + m2) a1 + m2 l (cos(x2) a2 - sin(x2) v2^2),
\*   p2' = m2 l cos(x2) a1 - m2 l sin(x2) v1 v2 + m2 l^2 a2.
MomentumRatesOf(X, f, q) ==
    LET s == NpSin(X[3])
        c == NpCos(X[3])
        n1 == f[2].n
        d1 == f[2].d
        n2 == f[4].n
        d2 == f[4].d
        dd == DMul(d1, d2)
    IN << Frac(DSub(DAdd(DMul(DVal(q.m1 + q.m2), DMul(n1, d2)),
                         DMul(DVal(q.m2 * q.l), DMul(c, DMul(n2, d1)))),
                    DMul(DVal(q.m2 * q.l * X[4] * X[4]), DMul(s, dd))),
               dd),
          Frac(DAdd(DSub(DMul(DVal(q.m2 * q.l), DMul(c, DMul(n1, d2))),
                         DMul(DVal(q.m2 * q.l * X[2] * X[4]), DMul(s, dd))),
                    DMul(DVal(q.m2 * q.l * q.l), DMul(n2, d1))),
               dd) >>

\* The Hamiltonian rates at the momentum state that corresponds to the
\* velocity state, control and parameters of the last rate evaluation.
HamiltonianRatesAt ==
    LET X == ev.X
        q == ev.p
        pp == MomentaOf(X, q)
    IN DE_funcs(X[1], pp[1], X[3], pp[2], ev.t, ev.u, q.m1, q.m2, q.l, q.g)

LagrangianEval ==
    /\ nb = "Lagrangian" /\ ev.valid
    /\ \A i \in 1..4 : ~NonFinite(ev.f[i])

\* C17 (as claimed): the Hamiltonian function describes the same system as
\* the Lagrangian one under the same control: at corresponding states its
\* velocities are the Lagrangian velocities and its momentum rates are the
\* time derivatives of p = dL/dv along the Lagrangian accelerations.
C17_SameSystem ==
    LagrangianEval =>
        /\ FEq(HamiltonianRatesAt[1], ev.f[1])
        /\ FEq(HamiltonianRatesAt[3], ev.f[3])
        /\ FEq(HamiltonianRatesAt[2], MomentumRatesOf(ev.X, ev.f, ev.p)[1])
        /\ FEq(HamiltonianRatesAt[4], MomentumRatesOf(ev.X, ev.f, ev.p)[2])

\* The rates of the running notebook's equations at state X with control u.
DynamicsAt(X, t, u, q) ==
    CASE nb = "Lagrangian" ->
           << Frac(DVal(X[2]), DVal(1)),
              y1dd_function(X[1], X[2], X[3], X[4], t, u, q.m1, q.m2, q.l, q.g),
              Frac(DVal(X[4]), DVal(1)),
              y2dd_function(X[1], X[2], X[3], X[4], t, u, q.m1, q.m2, q.l, q.g) >>
      [] nb = "Hamiltonian" ->
           DE_funcs(X[1], DVal(X[2]), X[3], DVal(X[4]), t, u, q.m1, q.m2, q.l, q.g)
      [] nb = "theta" ->
           << Frac(DVal(X[2]), DVal(1)),
              y1dd_function_theta(X[1], X[2], X[3], X[4], t, u, q.m1, q.m2, q.l, q.g),
              Frac(DVal(X[4]), DVal(1)),
              y2dd_function_theta(X[1], X[2], X[3], X[4], t, u, q.m1, q.m2, q.l, q.g) >>

\* C15: in each of the three rate functions the control of a rate
\* evaluation is the control law applied to the very state of that
\* evaluation, the rates are the dynamics at that state with that control,
\* and the integrator advances only after an evaluation made in the step.
C15_ControlThenDynamics ==
    [][ /\ ev'.valid =>
              /\ ev'.u = ApplyLaw(law', K_np', xsp', ev'.X)
              /\ ev'.f = DynamicsAt(ev'.X, ev'.t, ev'.u, ev'.p)
        /\ nsteps' # nsteps => evs >= 1 /\ ev.valid /\ ev' = ev
      ]_vars

\* A completed closed-loop run of the Hamiltonian notebook with two steps
\* or more whose last evaluation was away from the initial state.
C15_Witness ==
    /\ nb = "Hamiltonian" /\ law = "control_law" /\ phase = "Completed"
    /\ nsteps >= 2 /\ ev.X # x0 /\ ev.u # 0

\* C16: the trajectory is an ordered, append-only sequence on the uniform
\* grid: row k is at t0 + k*dt, times strictly increase and stay below tn,
\* row 0 is the caller's initial state, a step of the run appends at most
\* one row and changes no row already produced, and the returned array
\* begins with exactly the rows produced.
C16_AppendOnlyGrid ==
    [][ /\ phase' # "Idle" =>
              /\ out'[1].dev = {} /\ out'[1].st = "finite"
              /\ \A k \in 1..Len(out') :
                    /\ out'[k].t = grid'.t0 + (k - 1) * grid'.dt
                    /\ out'[k].t < grid'.tn
                    /\ k > 1 => out'[k].t > out'[k - 1].t
        /\ phase = "Integrating" =>
              /\ Len(out') \in {Len(out), Len(out) + 1}
              /\ \A k \in 1..Len(out) : out'[k] = out[k]
        /\ phase' \in Done =>
              /\ \A k \in 1..Len(out') : result'[k] = out'[k]
              /\ \A k \in 1..Len(result') :
                    result'[k].t = grid'.t0 + (k - 1) * grid'.dt
      ]_vars

\* A completed run of three rows whose state had moved by the last row.
C16_Witness ==
    /\ phase = "Completed" /\ Len(result) >= 3
    /\ result[1].dev = {} /\ result[3].dev # {}

Unforced == phase # "Idle" /\ law = "control_no"

\* C18: with u = 0 the horizontal momentum is conserved.  In the two
\* velocity notebooks (m_c + m_p) times the acceleration of the centre of
\* mass x_cm, which is the rate of p1 = dL/dv1, is zero at every rate
\* evaluation; in the Hamiltonian notebook the rate of p1 is zero at every
\* evaluation and p1 has its initial value in every sample.
C18_MomentumConserved ==
    Unforced =>
        /\ (nb # "Hamiltonian" /\ ev.valid
              /\ \A i \in 1..4 : ~NonFinite(ev.f[i])) =>
                 IsZeroRate(MomentumRatesOf(ev.X, ev.f, ev.p)[1])
        /\ nb = "Hamiltonian" =>
              /\ ev.valid => IsZeroRate(ev.f[2]) /\ ev.X[2] = x0[2]
              /\ 2 \notin dev
              /\ \A k \in 1..Len(out) : 2 \notin out[k].dev
              /\ \A k \in 1..Len(result) : 2 \notin result[k].dev

\* A completed unforced run of the third notebook whose last evaluation
\* had the pendulum swinging and the cart accelerating.
C18_Witness ==
    /\ Unforced /\ nb = "theta" /\ phase = "Completed" /\ ev.valid
    /\ ev.X[4] # 0 /\ ~NonFinite(ev.f[2]) /\ ~IsZeroRate(ev.f[2])
    /\ ~NonFinite(ev.f[4]) /\ ~IsZeroRate(ev.f[4])

\* Control values tried in place of the one an evaluation used.
UTRIAL == {-3, 0, 1, 10}

\* C19: the control force acts on the cart channel only: at the state and
\* parameters of any Hamiltonian rate evaluation another control value
\* changes the rate of p1 and leaves the rates of x1, x2 and p2 as they
\* are, and the input matrix of the Hamiltonian linearisation is zero
\* outside its p1 row.
C19_CartChannelOnly ==
    /\ HamiltonianEval =>
          \A w \in UTRIAL :
             LET r == DynamicsAt(ev.X, ev.t, w, ev.p)
             IN /\ r[1] = ev.f[1] /\ r[3] = ev.f[3] /\ r[4] = ev.f[4]
                /\ w # ev.u => r[2] # ev.f[2]
    /\ (nb = "Hamiltonian" /\ tuned) =>
          /\ B_np[1] = QZero /\ B_np[3] = QZero /\ B_np[4] = QZero
          /\ B_np[2].n # 0 /\ QFinite(B_np[2])

\* A completed closed-loop Hamiltonian run whose last evaluation applied a
\* non-zero control.
C19_Witness ==
    /\ HamiltonianEval /\ tuned /\ law = "control_law" /\ phase = "Completed"
    /\ ev.u # 0 /\ ~IsZeroRate(ev.f[4]) /\ B_np[2] = Frac(-1, 1)

AtSetpoint == law = "control_law" /\ ev.valid /\ ev.X = xsp

\* C20 (as claimed): at the set point (0, 0, pi, 0) the feedback law
\* returns 0, every rate is zero, and a closed-loop run started there has
\* every sample equal to the set point.
C20_FixedPointExact ==
    /\ AtSetpoint => ev.u = 0 /\ \A i \in 1..4 : IsZeroRate(ev.f[i])
    /\ (phase # "Idle" /\ law = "control_law" /\ x0 = xsp) =>
          \A k \in 1..Len(out) : out[k].dev = {}

\* C20 (amended): at the set point the feedback law returns exactly 0 for
\* every gain, and the rates are zero up to the rounding residue of
\* sin(np.pi) only: with gravity the fourth rate (the angular acceleration,
\* or the rate of p2) is not 0.
C20_FixedPointUpToResidue ==
    AtSetpoint =>
        /\ ev.u = 0
        /\ \A i \in 1..4 : IsZeroExact(ev.f[i])
        /\ ev.p.g # 0 => ~IsZeroRate(ev.f[4])

\* A completed closed-loop run started at its set point whose samples left
\* the set point.
C20_Witness ==
    /\ AtSetpoint /\ x0 = xsp /\ phase = "Completed"
    /\ \E k \in 1..Len(result) : result[k].dev # {}

=============================================================================
